---- MODULE Spec2Model ----
(***************************************************************************)
(* Session-scoped document ingestion of document_portal:                   *)
(*   src/src/document_analyzer/data_ingestion.py  (_sanitize_filename,     *)
(*       DocumentHandler)                                                  *)
(*   src/src/document_compare/data_ingestion.py   (DocumentIngestion)      *)
(*                                                                         *)
(* Text is a sequence of one-character strings.  A path is a sequence of   *)
(* components, each component a text.  Byte strings are run-length coded:  *)
(* explicit leading bytes followed by a run of filler bytes, so that the   *)
(* real chunk size and megabyte limits of the code can be kept.            *)
(***************************************************************************)
EXTENDS Integers, Sequences, FiniteSets, TLC

VARIABLES
    dirs,       \* the directories of the filesystem (resolved absolute paths)
    files,      \* the regular files: resolved absolute path -> byte string
    handlers,   \* DocumentHandler objects: slot -> [session_id, session_path] or NoObject
    ingestors,  \* DocumentIngestion objects: slot -> [session_id, session_path] or NoObject
    call,       \* the frame of the running (or last returned) operation
    result,     \* what the last returned operation gave its caller
    nsaves,     \* number of save operations started so far
    times       \* st_ctime and creation order of the directories that
                \* DocumentIngestion made: resolved path -> [birth, ctime]

vars == <<dirs, files, handlers, ingestors, call, result, nsaves, times>>

(***************************************************************************)
(* Text helpers                                                            *)
(***************************************************************************)
Min(a, b) == IF a <= b THEN a ELSE b
Max(a, b) == IF a >= b THEN a ELSE b

Rep(c, n) == [i \in 1..n |-> c]

Take(s, n) == SubSeq(s, 1, Min(n, Len(s)))

EndsWith(s, suf) ==
    /\ Len(s) >= Len(suf)
    /\ SubSeq(s, Len(s) - Len(suf) + 1, Len(s)) = suf

StartsWithSeq(s, pre) ==
    /\ Len(s) >= Len(pre)
    /\ SubSeq(s, 1, Len(pre)) = pre

UpperCase == <<"A","B","C","D","E","F","G","H","I","J","K","L","M",
               "N","O","P","Q","R","S","T","U","V","W","X","Y","Z">>
LowerCase == <<"a","b","c","d","e","f","g","h","i","j","k","l","m",
               "n","o","p","q","r","s","t","u","v","w","x","y","z">>
Digits == {"0","1","2","3","4","5","6","7","8","9"}

\* str.lower(), character by character
LowerChar(c) ==
    IF \E i \in 1..26 : UpperCase[i] = c
    THEN LowerCase[CHOOSE i \in 1..26 : UpperCase[i] = c]
    ELSE c

Lower(s) == [i \in 1..Len(s) |-> LowerChar(s[i])]

DotPdf == <<".", "p", "d", "f">>
DotTmp == <<".", "t", "m", "p">>

\* name.lower().endswith(".pdf")
IsPdfName(s) == EndsWith(Lower(s), DotPdf)

(***************************************************************************)
(* pathlib (POSIX flavour)                                                 *)
(***************************************************************************)
HasSlash(s) == \E i \in 1..Len(s) : s[i] = "/"

FirstSlash(s) == CHOOSE i \in 1..Len(s) :
                    s[i] = "/" /\ \A j \in 1..(i - 1) : s[j] # "/"

RECURSIVE Split(_)
\* str.split("/")
Split(s) ==
    IF ~HasSlash(s) THEN <<s>>
    ELSE <<SubSeq(s, 1, FirstSlash(s) - 1)>>
            \o Split(SubSeq(s, FirstSlash(s) + 1, Len(s)))

\* The components pathlib keeps of a path string: empty segments and "." are
\* dropped, ".." is kept.
Components(s) == SelectSeq(Split(s), LAMBDA seg : seg # <<>> /\ seg # <<".">>)

IsAbsolute(s) == Len(s) >= 1 /\ s[1] = "/"

\* Path(s).name: the last component, "" when there is none
PathName(s) ==
    LET parts == Components(s) IN
    IF parts = <<>> THEN <<>> ELSE parts[Len(parts)]

\* index of the last "." of a name, 0 when it has none
LastDot(n) ==
    IF \E i \in 1..Len(n) : n[i] = "."
    THEN CHOOSE i \in 1..Len(n) : n[i] = "." /\ \A j \in (i + 1)..Len(n) : n[j] # "."
    ELSE 0

\* PurePath.suffix: name[i:] for the last dot i when 0 < i < len(name) - 1
\* (0-based), else ""
Suffix(n) ==
    LET i == LastDot(n) IN
    IF i > 1 /\ i < Len(n) THEN SubSeq(n, i, Len(n)) ELSE <<>>

\* PurePath.stem of a name
Stem(n) == SubSeq(n, 1, Len(n) - Len(Suffix(n)))

\* PurePath.with_suffix(suf) applied to the last component
WithSuffix(n, suf) == Stem(n) \o suf

\* base / s : an absolute s replaces base
Join(base, s) ==
    IF IsAbsolute(s) THEN Components(s) ELSE base \o Components(s)

(***************************************************************************)
(* _sanitize_filename                                                      *)
(***************************************************************************)
NameLimit == 255

\* the complement of the character class of _SAFE_NAME_RE
SafeChars ==
    {UpperCase[i] : i \in 1..26} \cup {LowerCase[i] : i \in 1..26} \cup Digits
        \cup {" ", "_", ".", "-", "(", ")"}

SubUnsafe_Keep(s) == s

\* _SAFE_NAME_RE.sub("_", base): every maximal run of characters outside the
\* class becomes one underscore ("" marks a dropped position)
SubUnsafe(s) ==
    SelectSeq([i \in 1..Len(s) |->
                  IF s[i] \in SafeChars THEN s[i]
                  ELSE IF i > 1 /\ s[i - 1] \notin SafeChars THEN ""
                  ELSE "_"],
              LAMBDA c : c # "")

\* str.strip(): after the substitution the only whitespace left is the space
Strip(s) ==
    IF \A i \in 1..Len(s) : s[i] = " " THEN <<>>
    ELSE SubSeq(s,
                CHOOSE i \in 1..Len(s) :
                    s[i] # " " /\ \A j \in 1..(i - 1) : s[j] = " ",
                CHOOSE i \in 1..Len(s) :
                    s[i] # " " /\ \A j \in (i + 1)..Len(s) : s[j] = " ")

\* the ".pdf" that is appended when the name does not end in it
EnsurePdf(safe) == IF IsPdfName(safe) THEN safe ELSE safe \o DotPdf

sanitize_filename(name) ==
    Take(EnsurePdf(Strip(SubUnsafe(PathName(name)))), NameLimit)

(***************************************************************************)
(* Byte strings: head \o (pad filler bytes).  The heads used as inputs hold *)
(* no filler byte, which keeps the representation of every value unique.   *)
(***************************************************************************)
Filler == "0"

Bytes(head, pad) == [head |-> head, pad |-> pad]
EmptyBytes == Bytes(<<>>, 0)

\* len(b)
BLen(b) == Len(b.head) + b.pad

\* b[pos : pos + n], what read(n) returns at offset pos
BSlice(b, pos, n) ==
    LET end == Min(pos + n, BLen(b)) IN
    Bytes(SubSeq(b.head, pos + 1, Min(end, Len(b.head))),
          Max(0, end - Max(pos, Len(b.head))))

\* a + b, what the file holds after b is written behind a
BConcat(a, b) ==
    IF b.head = <<>> THEN Bytes(a.head, a.pad + b.pad)
    ELSE Bytes(a.head \o Rep(Filler, a.pad) \o b.head, b.pad)

\* the first n bytes written out
BTake(b, n) == Take(b.head, n) \o Rep(Filler, Min(Max(0, n - Len(b.head)), b.pad))

\* b.startswith(sig)
BStartsWith(b, sig) == BLen(b) >= Len(sig) /\ BTake(b, Len(sig)) = sig

\* a is a strict prefix of b
BStrictPrefix(a, b) == BLen(a) < BLen(b) /\ BSlice(b, 0, BLen(a)) = a

PdfMagic == <<"%", "P", "D", "F", "-">>

(***************************************************************************)
(* Filesystem                                                              *)
(***************************************************************************)
Root == <<>>
DotDot == <<".", ".">>

Parent(p) == IF p = <<>> THEN <<>> ELSE SubSeq(p, 1, Len(p) - 1)

RECURSIVE Walk(_, _, _)
\* The kernel's path walk from directory cur: every directory passed through
\* must exist, ".." steps to the parent; the last component need not exist.
Walk(cur, rest, D) ==
    IF rest = <<>> THEN [ok |-> TRUE, path |-> cur]
    ELSE IF cur \notin D THEN [ok |-> FALSE, path |-> cur]
    ELSE IF Head(rest) = DotDot THEN Walk(Parent(cur), Tail(rest), D)
    ELSE Walk(cur \o <<Head(rest)>>, Tail(rest), D)

Lookup(p, D) == Walk(Root, p, D)

RECURSIVE Collapse(_, _)
\* where the walk of p ends when every directory on the way exists
Collapse(cur, rest) ==
    IF rest = <<>> THEN cur
    ELSE IF Head(rest) = DotDot THEN Collapse(Parent(cur), Tail(rest))
    ELSE Collapse(cur \o <<Head(rest)>>, Tail(rest))

Resolved(p) == Collapse(Root, p)

\* the file f lies directly inside directory d
DirectChild(f, d) == Len(f) = Len(d) + 1 /\ SubSeq(f, 1, Len(d)) = d

\* path a is path b or lies below it
Within(a, b) == Len(a) >= Len(b) /\ SubSeq(a, 1, Len(b)) = b

FilePut(F, p, b) == [q \in (DOMAIN F) \cup {p} |-> IF q = p THEN b ELSE F[q]]
FileDel(F, p) == [q \in (DOMAIN F) \ {p} |-> F[q]]

\* open(p, "wb") can create or truncate p: the directory holding it exists
\* and p is no directory
CanOpenW(p, D) == Lookup(p, D).ok /\ Parent(Lookup(p, D).path) \in D
                    /\ Lookup(p, D).path \notin D /\ Lookup(p, D).path # Root

\* Path.mkdir(parents=True, exist_ok=True): each prefix of p in turn, shortest
\* first; it stops at the first prefix that is a regular file.
MkdirBlocked(p, F) == \E k \in 1..Len(p) : Resolved(SubSeq(p, 1, k)) \in DOMAIN F
MkdirReach(p, F) ==
    IF MkdirBlocked(p, F)
    THEN (CHOOSE k \in 1..Len(p) :
            /\ Resolved(SubSeq(p, 1, k)) \in DOMAIN F
            /\ \A j \in 1..(k - 1) : Resolved(SubSeq(p, 1, j)) \notin DOMAIN F) - 1
    ELSE Len(p)
MkdirP(p, D, F) == D \cup {Resolved(SubSeq(p, 1, k)) : k \in 0..MkdirReach(p, F)}

(***************************************************************************)
(* Directory timestamps (POSIX): st_ctime is the time of the last change   *)
(* of the directory's inode, which adding or removing an entry gives it;   *)
(* birth is the time it was made.                                          *)
(***************************************************************************)
NoTimes == [d \in {} |-> [birth |-> 0, ctime |-> 0]]

\* the clock reads later than every timestamp on disk
Now(T) == 1 + (IF DOMAIN T = {} THEN 0
               ELSE CHOOSE t \in {T[d].ctime : d \in DOMAIN T} :
                        \A d \in DOMAIN T : T[d].ctime <= t)

\* an entry was added to or removed from directory d
TouchDir(T, d) ==
    IF d \in DOMAIN T THEN [T EXCEPT ![d].ctime = Now(T)] ELSE T

\* mkdir(d)
AddDir(T, d) ==
    LET t == Now(T) IN
    [x \in (DOMAIN T) \cup {d} |->
        IF x = d THEN [birth |-> t, ctime |-> t]
        ELSE IF x = Parent(d) THEN [birth |-> T[x].birth, ctime |-> t]
        ELSE T[x]]

RECURSIVE MkdirStamp(_, _, _, _, _)
\* the timestamps Path.mkdir(parents=True) leaves: the prefixes k..reach of p
\* in turn, each one that is missing being made
MkdirStamp(T, D, p, k, reach) ==
    IF k > reach THEN T
    ELSE LET d == Resolved(SubSeq(p, 1, k)) IN
         IF d \in D THEN MkdirStamp(T, D, p, k + 1, reach)
         ELSE MkdirStamp(AddDir(T, d), D \cup {d}, p, k + 1, reach)

MkdirTimes(T, p, D, F) == MkdirStamp(T, D, p, 1, MkdirReach(p, F))

\* open(f, "wb"): a new entry changes the directory, a truncation does not
WriteTimes(T, F, f) == IF f \in DOMAIN F THEN T ELSE TouchDir(T, Parent(f))

(***************************************************************************)
(* Objects, frames and results                                             *)
(***************************************************************************)
NoObject == [constructed |-> FALSE, session_id |-> <<>>, session_path |-> <<>>]
IdleCall == [op |-> "none", pc |-> "idle"]
NoResult == [op |-> "none", status |-> "none"]

\* data_dir of DocumentHandler / base_dir of DocumentIngestion
BaseDir == << <<"d", "a", "t", "a">> >>

\* f"session_{utc timestamp}_{uuid4().hex[:8]}", one text per generated id
AutoId(n) == <<"s", "e", "s", "s", "i", "o", "n", "_", n>>

\* uuid4().hex[:8]: the i-th of the tokens the model draws from
HexDigits == <<"0", "1", "2", "3", "4", "5", "6", "7", "8", "9",
               "a", "b", "c", "d", "e", "f">>
HexChars == {HexDigits[i] : i \in 1..16}
Hex(i) == Rep("0", 7) \o <<HexDigits[i]>>

(***************************************************************************)
(* DocumentHandler.__init__                                                *)
(***************************************************************************)
\* self.data_dir / self.session_id
SessionPath(session_id) == Join(BaseDir, session_id)

\* sid is the caller's session_id, "" standing for None as well (both falsy);
\* auto is the id generated in that case.
NewHandler(h, sid, auto) ==
    /\ call.pc = "idle"
    /\ ~handlers[h].constructed
    /\ \A g \in DOMAIN handlers : handlers[g].session_id # auto
    /\ LET id == IF sid = <<>> THEN auto ELSE sid
           sp == SessionPath(id)
       IN  /\ dirs' = MkdirP(sp, dirs, files)
           /\ IF MkdirBlocked(sp, files)
              THEN /\ handlers' = handlers
                   /\ result' = [op |-> "init", status |-> "error",
                                 exc |-> "DocumentPortalException", h |-> h]
              ELSE /\ handlers' = [handlers EXCEPT ![h] =
                                     [constructed |-> TRUE, session_id |-> id,
                                      session_path |-> sp]]
                   /\ result' = [op |-> "init", status |-> "ok",
                                 exc |-> "none", h |-> h]
    /\ UNCHANGED <<files, ingestors, call, nsaves, times>>

(***************************************************************************)
(* DocumentHandler.save_document                                           *)
(***************************************************************************)
ChunkSize == 64 * 1024

MaxSizeBytes(max_size_mb) == max_size_mb * 1024 * 1024

TooLarge_AtLimit(total_size, max_size_mb) == total_size >= MaxSizeBytes(max_size_mb)

\* if total_size > max_size_bytes
TooLarge(total_size, max_size_mb) == total_size > MaxSizeBytes(max_size_mb)

TempPath_InPlace(file_path) == file_path

\* file_path.with_suffix('.tmp')
TempPath(file_path) ==
    Parent(file_path) \o <<WithSuffix(file_path[Len(file_path)], DotTmp)>>

SavePaths_Unsanitized(session_path, file_name, hex) ==
    LET clean  == EnsurePdf(file_name)
        unique == SubSeq(clean, 1, Len(clean) - 4) \o <<"_">> \o hex \o DotPdf
        fp     == Join(session_path, unique)
    IN  [clean_name |-> clean, unique_name |-> unique,
         file_path |-> fp, temp_path |-> TempPath(fp)]

\* clean_name, unique_name, file_path and temp_path as save_document derives
\* them from the upload's name and the random hex
SavePaths(session_path, file_name, hex) ==
    LET clean  == sanitize_filename(file_name)
        unique == Stem(PathName(clean)) \o <<"_">> \o hex \o DotPdf
        fp     == Join(session_path, unique)
    IN  [clean_name |-> clean, unique_name |-> unique,
         file_path |-> fp, temp_path |-> TempPath(fp)]

UnlinkTemp_Kept(F, D, temp_path) == F

\* temp_path.unlink() of the except clause, when temp_path.exists()
UnlinkTemp(F, D, temp_path) ==
    IF Lookup(temp_path, D).ok /\ Lookup(temp_path, D).path \in DOMAIN F
    THEN FileDel(F, Lookup(temp_path, D).path)
    ELSE F

SaveResult(fr, status, cause, opened) ==
    [op |-> "save_document", status |-> status,
     exc |-> IF status = "ok" THEN "none" ELSE "DocumentPortalException",
     cause |-> cause,
     value |-> IF status = "ok" THEN fr.file_path ELSE <<>>,
     h |-> fr.h, file_name |-> fr.file_name, stream |-> fr.stream,
     max_size_mb |-> fr.max_size_mb, clean_name |-> fr.clean_name,
     file_path |-> fr.file_path, temp_path |-> fr.temp_path,
     total_size |-> fr.total_size, opened |-> opened]

\* except Exception: remove the temp file, raise DocumentPortalException.
\* opened says that temp_path had been assigned when the exception came; the
\* cause is what raised: "unsupported_type", "too_large", "not_pdf", or "io"
\* for a failing system call or stream.
SaveFail(fr, F, cause, opened) ==
    /\ files' = (IF opened THEN UnlinkTemp(F, dirs, fr.temp_path) ELSE F)
    /\ result' = SaveResult(fr, "error", cause, opened)
    /\ call' = IdleCall

SaveFrame(h, file_name, stream, max_size_mb, hex) ==
    LET sp == SavePaths(handlers[h].session_path, file_name, hex) IN
    [op |-> "save_document", pc |-> "read", h |-> h, file_name |-> file_name,
     stream |-> stream, max_size_mb |-> max_size_mb,
     clean_name |-> sp.clean_name, file_path |-> sp.file_path,
     temp_path |-> sp.temp_path, pos |-> 0, total_size |-> 0,
     pdf_header_checked |-> FALSE]

\* uuid4 gives a name no file of the session has yet
FreshName(fr) == Resolved(fr.file_path) \notin DOMAIN files

\* Entry up to open(temp_path, 'wb'): the extension test on the sanitized
\* name, the paths, and the creation of the empty temp file.
SaveBegin(h, file_name, stream, max_size_mb, hex, bound) ==
    /\ call.pc = "idle"
    /\ handlers[h].constructed
    /\ nsaves < bound
    /\ nsaves' = nsaves + 1
    /\ LET fr == SaveFrame(h, file_name, stream, max_size_mb, hex) IN
       IF ~IsPdfName(fr.clean_name)
       THEN SaveFail([fr EXCEPT !.file_path = <<>>, !.temp_path = <<>>],
                     files, "unsupported_type", FALSE)
       ELSE /\ FreshName(fr)
            /\ IF CanOpenW(fr.temp_path, dirs)
               THEN /\ files' = FilePut(files, Lookup(fr.temp_path, dirs).path,
                                        EmptyBytes)
                    /\ call' = fr
                    /\ result' = result
               ELSE SaveFail(fr, files, "io", TRUE)
    /\ UNCHANGED <<dirs, handlers, ingestors, times>>

\* open(temp_path, 'wb') raises although the directory is there
SaveOpenFault(h, file_name, stream, max_size_mb, hex, bound) ==
    /\ call.pc = "idle"
    /\ handlers[h].constructed
    /\ nsaves < bound
    /\ nsaves' = nsaves + 1
    /\ LET fr == SaveFrame(h, file_name, stream, max_size_mb, hex) IN
       /\ IsPdfName(fr.clean_name)
       /\ FreshName(fr)
       /\ CanOpenW(fr.temp_path, dirs)
       /\ SaveFail(fr, files, "io", TRUE)
    /\ UNCHANGED <<dirs, handlers, ingestors, times>>

TempFile == Lookup(call.temp_path, dirs).path

RunningTotal_Stale(total_size, chunk) == total_size

\* total_size += len(chunk), before the comparison with the limit
RunningTotal(total_size, chunk) == total_size + BLen(chunk)

\* One turn of the while loop: read a chunk, size check, header check, write.
\* The read returns the next n bytes of the stream, fewer at its end.
SaveRead(n) ==
    /\ call.op = "save_document" /\ call.pc = "read"
    /\ LET chunk == BSlice(call.stream, call.pos, n)
           total == RunningTotal(call.total_size, chunk)
           fr    == [call EXCEPT !.total_size = total]
       IN  IF BLen(chunk) = 0
           THEN /\ call' = [call EXCEPT !.pc = "sync"]
                /\ UNCHANGED <<files, result>>
           ELSE IF TooLarge(total, call.max_size_mb)
           THEN SaveFail(fr, files, "too_large", TRUE)
           ELSE IF ~call.pdf_header_checked /\ ~BStartsWith(chunk, PdfMagic)
           THEN SaveFail(fr, files, "not_pdf", TRUE)
           ELSE /\ files' = FilePut(files, TempFile, BConcat(files[TempFile], chunk))
                /\ call' = [fr EXCEPT !.pos = call.pos + BLen(chunk),
                                      !.pdf_header_checked = TRUE]
                /\ result' = result
    /\ UNCHANGED <<dirs, handlers, ingestors, nsaves, times>>

\* file_stream.read(chunk_size) of a BytesIO, or of a stream that fills the
\* chunk whenever it can
SaveChunk == SaveRead(ChunkSize)

\* file_stream.read(chunk_size) of a stream that returns n bytes, fewer than
\* asked for, although more follow (a pipe, a socket); window bounds the
\* position up to which the model lets that happen
SaveShortRead(n, window) ==
    /\ call.op = "save_document" /\ call.pc = "read"
    /\ n > 0 /\ n < ChunkSize
    /\ call.pos < window
    /\ call.pos + n < BLen(call.stream)
    /\ SaveRead(n)

\* file_stream.read(chunk_size) raises
SaveReadFault ==
    /\ call.op = "save_document" /\ call.pc = "read"
    /\ SaveFail(call, files, "io", TRUE)
    /\ UNCHANGED <<dirs, handlers, ingestors, nsaves, times>>

\* f.write(chunk) raises after k bytes of the chunk reached the temp file
SaveWriteFault(k) ==
    /\ call.op = "save_document" /\ call.pc = "read"
    /\ LET chunk == BSlice(call.stream, call.pos, ChunkSize)
           total == RunningTotal(call.total_size, chunk)
       IN  /\ BLen(chunk) > k
           /\ ~TooLarge(total, call.max_size_mb)
           /\ call.pdf_header_checked \/ BStartsWith(chunk, PdfMagic)
           /\ SaveFail([call EXCEPT !.total_size = total],
                       FilePut(files, TempFile,
                               BConcat(files[TempFile], BSlice(chunk, 0, k))),
                       "io", TRUE)
    /\ UNCHANGED <<dirs, handlers, ingestors, nsaves, times>>

\* f.flush(); os.fsync(f.fileno()); the file is closed
SaveSync ==
    /\ call.op = "save_document" /\ call.pc = "sync"
    /\ call' = [call EXCEPT !.pc = "replace"]
    /\ UNCHANGED <<dirs, files, handlers, ingestors, result, nsaves, times>>

SaveSyncFault ==
    /\ call.op = "save_document" /\ call.pc = "sync"
    /\ SaveFail(call, files, "io", TRUE)
    /\ UNCHANGED <<dirs, handlers, ingestors, nsaves, times>>

\* os.replace(temp_path, file_path) and the return of str(file_path)
SaveReplace ==
    /\ call.op = "save_document" /\ call.pc = "replace"
    /\ files' = FilePut(FileDel(files, TempFile),
                        Lookup(call.file_path, dirs).path, files[TempFile])
    /\ result' = SaveResult(call, "ok", "none", TRUE)
    /\ call' = IdleCall
    /\ UNCHANGED <<dirs, handlers, ingestors, nsaves, times>>

SaveReplaceFault ==
    /\ call.op = "save_document" /\ call.pc = "replace"
    /\ SaveFail(call, files, "io", TRUE)
    /\ UNCHANGED <<dirs, handlers, ingestors, nsaves, times>>

(***************************************************************************)
(* DocumentHandler.cleanup_session                                         *)
(***************************************************************************)
\* the regular files directly inside directory d
FilesIn(F, d) == {f \in DOMAIN F : DirectChild(f, d)}

\* the directories directly inside directory d
SubdirsIn(D, d) == {x \in D : DirectChild(x, d)}

CanRmdir_Always(D, F, d) == TRUE

\* self.session_path.rmdir() succeeds on an empty directory only
CanRmdir(D, F, d) == d # Root /\ SubdirsIn(D, d) = {} /\ FilesIn(F, d) = {}

Rmdir_Kept(D, d) == D

\* self.session_path.rmdir()
Rmdir(D, d) == D \ {d}

CleanupResult(h, status, d, deleted, stuck) ==
    [op |-> "cleanup_session", status |-> status,
     exc |-> IF status = "ok" THEN "none" ELSE "DocumentPortalException",
     h |-> h, dir |-> d, found |-> FilesIn(files, d),
     subdirs |-> SubdirsIn(dirs, d), stuck |-> stuck,
     deleted |-> deleted, files_deleted |-> Cardinality(deleted)]

\* stuck holds the file whose unlink() raises, if one does; the files that
\* iterdir() gave before it are deleted by then
CleanupSession(h, stuck) ==
    /\ call.pc = "idle"
    /\ handlers[h].constructed
    /\ LET r == Lookup(handlers[h].session_path, dirs)
           d == r.path
       IN  IF ~(r.ok /\ d \in dirs)
           THEN \* iterdir() raises: the directory is gone
                /\ stuck = {}
                /\ UNCHANGED <<dirs, files>>
                /\ result' = CleanupResult(h, "error", d, {}, {})
           ELSE /\ stuck \subseteq FilesIn(files, d)
                /\ IF stuck # {}
                   THEN \E gone \in SUBSET (FilesIn(files, d) \ stuck) :
                          /\ files' = [f \in (DOMAIN files) \ gone |-> files[f]]
                          /\ dirs' = dirs
                          /\ result' = CleanupResult(h, "error", d, gone, stuck)
                   ELSE LET left == [f \in (DOMAIN files) \ FilesIn(files, d)
                                        |-> files[f]]
                        IN  /\ files' = left
                            /\ IF CanRmdir(dirs, left, d)
                               THEN /\ dirs' = Rmdir(dirs, d)
                                    /\ result' = CleanupResult(h, "ok", d,
                                                     FilesIn(files, d), {})
                               ELSE \* rmdir() raises: the directory is not empty
                                    /\ dirs' = dirs
                                    /\ result' = CleanupResult(h, "error", d,
                                                     FilesIn(files, d), {})
    /\ UNCHANGED <<handlers, ingestors, call, nsaves, times>>

\* what an unlink() of cleanup_session can fail on: nothing, or one file
UnlinkFaults(h) ==
    {{}} \cup {{f} : f \in FilesIn(files, Lookup(handlers[h].session_path, dirs).path)}

(***************************************************************************)
(* Inputs                                                                  *)
(***************************************************************************)
MaxSaves == 2

NameEvil == <<".", ".", "/", ".", ".", "/", "e", "v", "i", "l", ".", "p", "d", "f">>
NameXTxt == <<"x", ".", "t", "x", "t">>
\* NameLimit - 3 safe characters: the appended ".pdf" is cut to ".pd"
NameLong == Rep("a", NameLimit - 3)

SaveNames == {NameEvil, NameXTxt, <<>>, NameLong}

NotPdfHead == <<"G", "I", "F", "8", "9", "a">>
Pdf5 == Bytes(PdfMagic, 0)
Gif10 == Bytes(NotPdfHead, 4)

SaveStreams ==
    { EmptyBytes,
      Bytes(<<"%", "P", "D", "F">>, 0),
      Pdf5,
      Bytes(PdfMagic, ChunkSize - 5),
      Bytes(PdfMagic, ChunkSize - 4),
      Bytes(PdfMagic, MaxSizeBytes(1) - 5),
      Bytes(PdfMagic, MaxSizeBytes(1) - 4),
      Gif10,
      Bytes(NotPdfHead, MaxSizeBytes(1)) }

Upload(name, stream, max_size_mb) ==
    [name |-> name, stream |-> stream, max_size_mb |-> max_size_mb]

\* the calls of save_document the model makes: every stream under one name
\* and the 1 MB limit, every name with a small PDF, and the non-PDF upload
\* under the default limit and under a limit of 0
Uploads ==
    {Upload(NameEvil, s, 1) : s \in SaveStreams}
        \cup {Upload(n, Pdf5, 1) : n \in SaveNames}
        \cup {Upload(n, Gif10, 50) : n \in {NameXTxt, NameLong}}
        \cup {Upload(NameXTxt, s, 0) : s \in {Gif10, Pdf5}}

\* how many bytes of a chunk a failing write may leave behind
PartialWrites == {0, 3}

\* uuid4: the first token that names no file of the session yet (the tokens
\* are interchangeable, so the model takes them in order)
Uuid(h, file_name) ==
    Hex(CHOOSE i \in 1..16 :
          /\ FreshName(SaveFrame(h, file_name, EmptyBytes, 0, Hex(i)))
          /\ \A j \in 1..(i - 1) :
                ~FreshName(SaveFrame(h, file_name, EmptyBytes, 0, Hex(j))))

(***************************************************************************)
(* Specification of one DocumentHandler                                    *)
(***************************************************************************)
Init ==
    /\ dirs = {Root}
    /\ files = [p \in {} |-> EmptyBytes]
    /\ handlers = [h \in {1, 2} |-> NoObject]
    /\ ingestors = [g \in {1, 2} |-> NoObject]
    /\ call = IdleCall
    /\ result = NoResult
    /\ nsaves = 0
    /\ times = NoTimes

SaveSteps ==
    \/ SaveChunk
    \/ SaveReadFault
    \/ \E k \in PartialWrites : SaveWriteFault(k)
    \/ SaveSync
    \/ SaveSyncFault
    \/ SaveReplace
    \/ SaveReplaceFault

Next ==
    \/ NewHandler(1, <<>>, AutoId("1"))
    \/ \E u \in Uploads :
          \/ SaveBegin(1, u.name, u.stream, u.max_size_mb, Uuid(1, u.name), MaxSaves)
          \/ SaveOpenFault(1, u.name, u.stream, u.max_size_mb, Uuid(1, u.name), MaxSaves)
    \/ SaveSteps
    \/ \E stuck \in UnlinkFaults(1) : CleanupSession(1, stuck)

Spec == Init /\ [][Next]_vars

(***************************************************************************)
(* Properties of save_document                                             *)
(***************************************************************************)
SaveReturned == result.op = "save_document" /\ call.pc = "idle"

SessionDir(h) == Resolved(handlers[h].session_path)

\* C1: when save_document returns with a failure, whatever raised (the stream,
\* the header check, the size check, a write, flush/fsync or the rename), the
\* final file does not exist and no .tmp file is left in the session directory.
C1_FailedSaveLeavesNothing ==
    (SaveReturned /\ result.status = "error") =>
        /\ result.opened =>
              /\ Resolved(result.file_path) \notin DOMAIN files
              /\ Resolved(result.temp_path) \notin DOMAIN files
        /\ \A f \in FilesIn(files, SessionDir(result.h)) :
              ~EndsWith(f[Len(f)], DotTmp)

\* a save failed on an I/O error after at least one whole chunk was written
C1_Witness ==
    /\ SaveReturned /\ result.status = "error" /\ result.cause = "io"
    /\ result.total_size > ChunkSize

\* C2: in every state of a save_document call, and after it, the final path
\* is absent or holds the whole upload; it never holds a part of it.
C2_FinalPathNeverPartial ==
    /\ call.op = "save_document" =>
          (Resolved(call.file_path) \in DOMAIN files =>
              files[Resolved(call.file_path)] = call.stream)
    /\ (SaveReturned /\ result.opened) =>
          (Resolved(result.file_path) \in DOMAIN files =>
              files[Resolved(result.file_path)] = result.stream)

\* the temp file holds a non-empty strict prefix of the upload while the
\* final path is absent
C2_Witness ==
    /\ call.op = "save_document" /\ call.pc = "read"
    /\ BLen(files[TempFile]) > 0
    /\ BStrictPrefix(files[TempFile], call.stream)
    /\ Resolved(call.file_path) \notin DOMAIN files

C4_NonPdfFailsAsInvalidPdf ==
    (/\ SaveReturned /\ result.cause # "io"
     /\ BLen(result.stream) > 0 /\ ~BStartsWith(result.stream, PdfMagic)) =>
        /\ result.status = "error" /\ result.cause = "not_pdf"

\* C5: every file that save_document left at a final path has a name ending
\* in .pdf and a content beginning with %PDF-.
C5_StoredFilesArePdf ==
    \A f \in DOMAIN files :
        (call.op = "save_document" => f # TempFile) =>
            /\ EndsWith(f[Len(f)], DotPdf)
            /\ BStartsWith(files[f], PdfMagic)

\* C7: the path a successful save_document returns is a direct child of the
\* session directory; its name holds no separator and reads
\* <stem of the sanitized name>_<8 hex characters>.pdf.
C7_SavedPathIsSafeChild ==
    (SaveReturned /\ result.status = "ok") =>
        LET v    == result.value
            sp   == handlers[result.h].session_path
            name == v[Len(v)]
            n    == Len(name)
        IN  /\ DirectChild(v, sp)
            /\ Resolved(v) = Resolved(sp) \o <<name>>
            /\ ~HasSlash(name)
            /\ EndsWith(name, DotPdf)
            /\ n >= 13
            /\ SubSeq(name, 1, n - 13) = Stem(sanitize_filename(result.file_name))
            /\ name[n - 12] = "_"
            /\ \A i \in (n - 11)..(n - 4) : name[i] \in HexChars

\* the traversal payload ../../evil.pdf was saved
C7_Witness ==
    /\ SaveReturned /\ result.status = "ok"
    /\ result.file_name = NameEvil
    /\ Resolved(result.value) \in DOMAIN files

(***************************************************************************)
(* _sanitize_filename on its own                                           *)
(***************************************************************************)
MaxNameLen == 3

\* one character outside ASCII, written by its code point
NonAscii == "U+00E9"

NameAlphabet == {"a", ".", "/", " ", "@", "\t", NonAscii}
NameEndings == { <<>>, DotPdf, <<".", "P", "D", "F">>, <<".", "t", "x", "t">>,
                 DotPdf \o <<" ">> }

\* every text of at most MaxNameLen characters of the alphabet, and runs of
\* safe characters around NameLimit, each followed by every ending
SanitizeNames ==
    {body \o e : body \in UNION {[1..n -> NameAlphabet] : n \in 0..MaxNameLen},
                 e \in NameEndings}
        \cup {Rep("a", n) \o e : n \in (NameLimit - 6)..(NameLimit + 1),
                                 e \in NameEndings}

\* the call _sanitize_filename(name) is about to be made
InitSanitize ==
    /\ dirs = {Root}
    /\ files = [p \in {} |-> EmptyBytes]
    /\ handlers = [h \in {1, 2} |-> NoObject]
    /\ ingestors = [g \in {1, 2} |-> NoObject]
    /\ call = IdleCall
    /\ nsaves = 0
    /\ times = NoTimes
    /\ \E name \in SanitizeNames :
          result = [op |-> "sanitize", status |-> "called", name |-> name,
                    base |-> <<>>, subbed |-> <<>>, out |-> <<>>]

Sanitize ==
    /\ result.op = "sanitize" /\ result.status = "called"
    /\ result' = [result EXCEPT !.status = "ok",
                                !.base = PathName(result.name),
                                !.subbed = SubUnsafe(PathName(result.name)),
                                !.out = sanitize_filename(result.name)]
    /\ UNCHANGED <<dirs, files, handlers, ingestors, call, nsaves, times>>

NextSanitize == Sanitize

SpecSanitize == InitSanitize /\ [][NextSanitize]_vars

\* C10: for every input the result of _sanitize_filename ends in ".pdf"
\* (case-insensitive), so that the extension test of save_document passes.
C10_SanitizedNameEndsInPdf ==
    (result.op = "sanitize" /\ result.status = "ok") => IsPdfName(result.out)

SanitizeReturned == result.op = "sanitize" /\ result.status = "ok"

\* C11: for every input (empty, blank, path traversal, non-ASCII, longer than
\* 255 characters) _sanitize_filename returns a non-empty text of at most 255
\* characters, all of them from A-Z a-z 0-9 space _ . - ( ), hence without a
\* path separator.
C11_SanitizedNameIsSafe ==
    SanitizeReturned =>
        /\ result.out # <<>>
        /\ Len(result.out) <= NameLimit
        /\ \A i \in 1..Len(result.out) : result.out[i] \in SafeChars
        /\ ~HasSlash(result.out)

\* a name with a directory part and a non-ASCII character was sanitized
C11_Witness ==
    /\ SanitizeReturned
    /\ HasSlash(result.name)
    /\ \E i \in 1..Len(result.base) : result.base[i] = NonAscii

\* C12: every character of the last path segment that is outside the allowed
\* set is replaced by its own underscore, so the substituted base is as long
\* as the segment and a run of k such characters gives k underscores.
C12_OneUnderscorePerCharacter ==
    SanitizeReturned =>
        /\ Len(result.subbed) = Len(result.base)
        /\ \A i \in 1..Len(result.base) :
              result.subbed[i] = (IF result.base[i] \in SafeChars
                                  THEN result.base[i] ELSE "_")

(***************************************************************************)
(* Two DocumentHandler sessions on one base directory                      *)
(***************************************************************************)
MaxSessionSaves == 2

IdS1 == <<"s", "1">>
IdS2 == <<"s", "2">>

\* the session_id arguments: None, plain names, and ids with "." components,
\* separators and ".."
SessionIds ==
    { <<>>, IdS1, IdS2,
      <<".", "/">> \o IdS1,
      IdS1 \o <<"/", "s", "u", "b">>,
      IdS2 \o <<"/", ".", ".", "/">> \o IdS1,
      DotDot }

NextSessions ==
    \/ \E h \in {1, 2}, sid \in SessionIds :
          NewHandler(h, sid, AutoId(HexDigits[h + 1]))
    \/ \E h \in {1, 2} :
          SaveBegin(h, NameXTxt, Pdf5, 1, Uuid(h, NameXTxt), MaxSessionSaves)
    \/ SaveChunk
    \/ SaveSync
    \/ SaveReplace
    \/ \E h \in {1, 2} :
          \E stuck \in UnlinkFaults(h) : CleanupSession(h, stuck)

SpecSessions == Init /\ [][NextSessions]_vars

\* the sessions of two handlers overlap: one directory is the other or lies
\* below it
Overlap(h, g) ==
    \/ Within(SessionDir(h), SessionDir(g))
    \/ Within(SessionDir(g), SessionDir(h))

\* C6: two sessions with different session ids on the same base directory
\* have directories that are neither equal nor nested, and cleanup_session of
\* one deletes no file of the other's directory.
C6_SessionsIsolated ==
    \A h \in {1, 2}, g \in {1, 2} :
        (/\ handlers[h].constructed /\ handlers[g].constructed
         /\ handlers[h].session_id # handlers[g].session_id) =>
            /\ ~Overlap(h, g)
            /\ (result.op = "cleanup_session" /\ result.h = h) =>
                  \A f \in result.deleted : ~DirectChild(f, SessionDir(g))

(***************************************************************************)
(* DocumentIngestion.__init__ and save_uploaded_files                      *)
(***************************************************************************)
NewIngestor(g, sid, auto) ==
    /\ call.pc = "idle"
    /\ ~ingestors[g].constructed
    /\ \A k \in DOMAIN ingestors : ingestors[k].session_id # auto
    /\ LET id == IF sid = <<>> THEN auto ELSE sid
           sp == SessionPath(id)
       IN  /\ dirs' = MkdirP(sp, dirs, files)
           /\ IF MkdirBlocked(sp, files)
              THEN /\ ingestors' = ingestors
                   /\ result' = [op |-> "init_ingestion", status |-> "error",
                                 exc |-> "DocumentPortalException", g |-> g]
              ELSE /\ ingestors' = [ingestors EXCEPT ![g] =
                                      [constructed |-> TRUE, session_id |-> id,
                                       session_path |-> sp]]
                   /\ result' = [op |-> "init_ingestion", status |-> "ok",
                                 exc |-> "none", g |-> g]
           /\ times' = MkdirTimes(times, sp, dirs, files)
    /\ UNCHANGED <<files, handlers, call, nsaves>>

\* an upload object: .name and .get_buffer()
UploadFile(name, buffer) == [name |-> name, buffer |-> buffer]

\* self.session_path / ref_file.name
PairPath(session_path, name) == Join(session_path, name)

\* if ref_path == actual_path
SamePath(ref_path, actual_path) == ref_path = actual_path

PairResult(g, ref, actual, status, exc, ref_path, actual_path, written) ==
    [op |-> "save_uploaded_files", status |-> status, exc |-> exc, g |-> g,
     ref_name |-> ref.name, actual_name |-> actual.name,
     ref_path |-> ref_path, actual_path |-> actual_path,
     value |-> IF status = "ok" THEN <<ref_path, actual_path>> ELSE <<>>,
     written |-> written]

SaveUploadedFiles(g, ref, actual, bound) ==
    /\ call.pc = "idle"
    /\ ingestors[g].constructed
    /\ nsaves < bound
    /\ nsaves' = nsaves + 1
    /\ LET sp          == ingestors[g].session_path
           ref_path    == PairPath(sp, ref.name)
           actual_path == PairPath(sp, actual.name)
           ref_file    == Lookup(ref_path, dirs).path
           actual_file == Lookup(actual_path, dirs).path
           F1          == FilePut(files, ref_file, ref.buffer)
           T1          == WriteTimes(times, files, ref_file)
       IN  IF ~IsPdfName(ref.name) \/ ~IsPdfName(actual.name)
           THEN /\ files' = files
                /\ times' = times
                /\ result' = PairResult(g, ref, actual, "error", "ValueError",
                                        <<>>, <<>>, {})
           ELSE IF SamePath(ref_path, actual_path)
           THEN /\ files' = files
                /\ times' = times
                /\ result' = PairResult(g, ref, actual, "error", "ValueError",
                                        ref_path, actual_path, {})
           ELSE IF ~CanOpenW(ref_path, dirs)
           THEN /\ files' = files
                /\ times' = times
                /\ result' = PairResult(g, ref, actual, "error",
                                        "DocumentPortalException",
                                        ref_path, actual_path, {})
           ELSE IF ~CanOpenW(actual_path, dirs)
           THEN /\ files' = F1
                /\ times' = T1
                /\ result' = PairResult(g, ref, actual, "error",
                                        "DocumentPortalException",
                                        ref_path, actual_path, {ref_file})
           ELSE /\ files' = FilePut(F1, actual_file, actual.buffer)
                /\ times' = WriteTimes(T1, F1, actual_file)
                /\ result' = PairResult(g, ref, actual, "ok", "none",
                                        ref_path, actual_path,
                                        {ref_file, actual_file})
    /\ UNCHANGED <<dirs, handlers, ingestors, call>>

\* f.write(...get_buffer()) raises after k bytes of the buffer reached the
\* file: that of the reference when first, that of the actual file otherwise
SaveUploadedFilesWriteFault(g, ref, actual, bound, first, k) ==
    /\ call.pc = "idle"
    /\ ingestors[g].constructed
    /\ nsaves < bound
    /\ nsaves' = nsaves + 1
    /\ LET sp          == ingestors[g].session_path
           ref_path    == PairPath(sp, ref.name)
           actual_path == PairPath(sp, actual.name)
           ref_file    == Lookup(ref_path, dirs).path
           actual_file == Lookup(actual_path, dirs).path
           F1          == FilePut(files, ref_file, ref.buffer)
           T1          == WriteTimes(times, files, ref_file)
       IN  /\ IsPdfName(ref.name) /\ IsPdfName(actual.name)
           /\ ~SamePath(ref_path, actual_path)
           /\ CanOpenW(ref_path, dirs)
           /\ IF first
              THEN /\ BLen(ref.buffer) > k
                   /\ files' = FilePut(files, ref_file, BSlice(ref.buffer, 0, k))
                   /\ times' = T1
                   /\ result' = PairResult(g, ref, actual, "error",
                                           "DocumentPortalException",
                                           ref_path, actual_path, {ref_file})
              ELSE /\ CanOpenW(actual_path, dirs)
                   /\ BLen(actual.buffer) > k
                   /\ files' = FilePut(F1, actual_file,
                                       BSlice(actual.buffer, 0, k))
                   /\ times' = WriteTimes(T1, F1, actual_file)
                   /\ result' = PairResult(g, ref, actual, "error",
                                           "DocumentPortalException",
                                           ref_path, actual_path,
                                           {ref_file, actual_file})
    /\ UNCHANGED <<dirs, handlers, ingestors, call>>

(***************************************************************************)
(* Specification of one DocumentIngestion                                  *)
(***************************************************************************)
MaxPairSaves == 2

RefPdf == <<"r", "e", "f", ".", "p", "d", "f">>

\* upload names: plain, upper-case extension, "." component, wrong extension,
\* ".." component, absolute, a detour through the session's own directory,
\* and a subdirectory that does not exist
PairNames ==
    { RefPdf,
      <<"R", "E", "F", ".", "P", "D", "F">>,
      <<".", "/">> \o RefPdf,
      <<"r", "e", "f", ".", "t", "x", "t">>,
      <<".", ".", "/", "o", "u", "t", ".", "p", "d", "f">>,
      <<"/", "a", "b", "s", ".", "p", "d", "f">>,
      <<".", ".", "/">> \o AutoId("1") \o <<"/">> \o RefPdf,
      <<"s", "u", "b", "/">> \o RefPdf }

NameOut == <<"o", "u", "t", ".", "p", "d", "f">>

RefBuffers == {Pdf5, Gif10}
ActualBuffer == Bytes(PdfMagic, 1)

NextCompare ==
    \/ NewIngestor(1, <<>>, AutoId("1"))
    \/ \E rn \in PairNames, an \in PairNames, rb \in RefBuffers :
          SaveUploadedFiles(1, UploadFile(rn, rb), UploadFile(an, ActualBuffer),
                            MaxPairSaves)
    \/ \E first \in BOOLEAN, k \in PartialWrites :
          SaveUploadedFilesWriteFault(1, UploadFile(RefPdf, Pdf5),
                                      UploadFile(NameOut, ActualBuffer),
                                      MaxPairSaves, first, k)

SpecCompare == Init /\ [][NextCompare]_vars

IngestDir(g) == Resolved(ingestors[g].session_path)

PairReturned == result.op = "save_uploaded_files"

\* C8: the files save_uploaded_files writes lie directly in the ingestor's
\* own session directory, whatever accepted names the uploads carry.
C8_PairFilesInsideSession ==
    PairReturned =>
        \A f \in result.written : DirectChild(f, IngestDir(result.g))

\* C9: save_uploaded_files raises ValueError and writes nothing when a name
\* does not end in .pdf (case-insensitive) or when both uploads denote the same
\* destination file.
C9_PairValidation ==
    (/\ PairReturned
     /\ \/ ~IsPdfName(result.ref_name)
        \/ ~IsPdfName(result.actual_name)
        \/ Lookup(PairPath(ingestors[result.g].session_path, result.ref_name), dirs)
             = Lookup(PairPath(ingestors[result.g].session_path, result.actual_name), dirs))
        => /\ result.status = "error"
           /\ result.exc = "ValueError"
           /\ result.written = {}

(***************************************************************************)
(* Text of unbounded size: run-length coded like byte strings, explicit     *)
(* leading characters followed by a run of the (non-blank) filler.          *)
(***************************************************************************)
Str(head, pad) == Bytes(head, pad)

\* str(n) of a natural number
RECURSIVE Decimal(_)
Decimal(n) ==
    IF n < 10 THEN <<HexDigits[n + 1]>>
    ELSE Decimal(n \div 10) \o <<HexDigits[(n % 10) + 1]>>

\* f"\n--- Page {page_num + 1} ---\n", n being page_num + 1
Marker(n) ==
    Str(<<"\n", "-", "-", "-", " ", "P", "a", "g", "e", " ">> \o Decimal(n)
            \o <<" ", "-", "-", "-", "\n">>, 0)

Newline == Str(<<"\n">>, 0)

Whitespace == {" ", "\n", "\t"}

IsBlank_Never(t) == FALSE

\* not (page_text and page_text.strip())
IsBlank(t) == t.pad = 0 /\ \A i \in 1..Len(t.head) : t.head[i] \in Whitespace

(***************************************************************************)
(* fitz (PyMuPDF): what opening a file's content gives.  A content the      *)
(* library knows is a document with an encryption flag and the texts of its *)
(* pages; every other content fails to open.                                *)
(***************************************************************************)
PdfDoc(is_encrypted, pages) ==
    [ok |-> TRUE, is_encrypted |-> is_encrypted, pages |-> pages]
NotAPdf == [ok |-> FALSE, is_encrypted |-> FALSE, pages |-> <<>>]

\* the content of the file that holds the document with this tag
DocFile(tag) == Bytes(PdfMagic \o tag, 0)

\* max_chunk_size of read_document
MaxChunkSize == 1024 * 1024

TxtAbc   == Str(<<"a", "b", "c">>, 0)
TxtXyz   == Str(<<"x", "y", "z">>, 0)
TxtBlank == Str(<<" ", "\n">>, 0)
TxtEmpty == Str(<<>>, 0)
\* a page whose text ends exactly at the cap behind its marker
TxtToCap == Str(<<"x">>, MaxChunkSize - BLen(Marker(1)) - 1)
\* a second page whose text goes one character over the cap behind a first
\* page "abc" and its own marker
TxtOverCap ==
    Str(<<"x">>, MaxChunkSize - 2 * BLen(Marker(1)) - BLen(TxtAbc) - BLen(Newline))

FileThree   == DocFile(<<"3">>)
FileBlank   == DocFile(<<"b">>)
FileZero    == DocFile(<<"z">>)
FileLocked  == DocFile(<<"e">>)
FileToCap   == DocFile(<<"c">>)
FileOverCap == DocFile(<<"o">>)

PdfLibrary ==
    { [content |-> FileThree,   doc |-> PdfDoc(FALSE, <<TxtAbc, TxtBlank, TxtXyz>>)],
      [content |-> FileBlank,   doc |-> PdfDoc(FALSE, <<TxtBlank, TxtEmpty>>)],
      [content |-> FileZero,    doc |-> PdfDoc(FALSE, <<>>)],
      [content |-> FileLocked,  doc |-> PdfDoc(TRUE, <<TxtAbc>>)],
      [content |-> FileToCap,   doc |-> PdfDoc(FALSE, <<TxtToCap, TxtAbc>>)],
      [content |-> FileOverCap, doc |-> PdfDoc(FALSE, <<TxtAbc, TxtOverCap, TxtXyz>>)] }

\* fitz.open(path) on a regular file with content b
FitzOpen(b) ==
    IF \E e \in PdfLibrary : e.content = b
    THEN (CHOOSE e \in PdfLibrary : e.content = b).doc
    ELSE NotAPdf

(***************************************************************************)
(* DocumentHandler.read_document                                           *)
(***************************************************************************)
\* the max_pages argument: None, or an integer
NoMaxPages == [given |-> FALSE, value |-> 0]
MaxPagesOf(n) == [given |-> TRUE, value |-> n]

\* min(max_pages or total_pages, total_pages): None and 0 are both falsy
PagesToProcess(max_pages, total_pages) ==
    Min(IF max_pages.given /\ max_pages.value # 0
        THEN max_pages.value ELSE total_pages,
        total_pages)

\* the i-th piece (from 1) the generator yields: marker, page text and "\n"
\* for each page in turn
Piece(pages, i) ==
    LET page_num == (i - 1) \div 3 IN
    CASE (i - 1) % 3 = 0 -> Marker(page_num + 1)
      [] (i - 1) % 3 = 1 -> pages[page_num + 1]
      [] OTHER           -> Newline

ExceedsCap_AtCap(chunk_size, n) == chunk_size + n >= MaxChunkSize

\* if chunk_size + len(text_piece) > max_chunk_size
ExceedsCap(chunk_size, n) == chunk_size + n > MaxChunkSize

ReadResult(fr, status, cause, truncated) ==
    [op |-> "read_document", status |-> status,
     exc |-> IF status = "ok" THEN "none" ELSE "DocumentPortalException",
     cause |-> cause, h |-> fr.h, file_path |-> fr.file_path,
     max_pages |-> fr.max_pages, pages |-> fr.pages,
     pages_to_process |-> fr.pages_to_process,
     value |-> IF status = "ok" THEN fr.text_chunks ELSE <<>>,
     text_length |-> IF status = "ok" THEN fr.chunk_size ELSE 0,
     truncated |-> truncated]

ReadFrame(h, file_path, max_pages, pages) ==
    [op |-> "read_document", pc |-> "pieces", h |-> h, file_path |-> file_path,
     max_pages |-> max_pages, pages |-> pages,
     pages_to_process |-> PagesToProcess(max_pages, Len(pages)),
     yielded |-> 0, text_chunks |-> <<>>, chunk_size |-> 0]

\* Entry: Path(file_path).resolve(strict=True), and the fitz.open of the
\* generator's first step.  A missing path, a directory and a content that is
\* no PDF each raise, which the except clause wraps.
ReadBegin(h, file_path, max_pages) ==
    /\ call.pc = "idle"
    /\ handlers[h].constructed
    /\ LET r   == Lookup(file_path, dirs)
           fr0 == ReadFrame(h, file_path, max_pages, <<>>)
       IN  IF ~(r.ok /\ (r.path \in dirs \/ r.path \in DOMAIN files))
           THEN /\ result' = ReadResult(fr0, "error", "not_found", FALSE)
                /\ call' = IdleCall
           ELSE IF r.path \in dirs \/ ~FitzOpen(files[r.path]).ok
           THEN /\ result' = ReadResult(fr0, "error", "open", FALSE)
                /\ call' = IdleCall
           ELSE IF FitzOpen(files[r.path]).is_encrypted
           THEN \* doc[page_num] raises on a document that needs a password
                /\ result' = ReadResult(fr0, "error", "encrypted", FALSE)
                /\ call' = IdleCall
           ELSE /\ call' = ReadFrame(h, file_path, max_pages,
                                     FitzOpen(files[r.path]).pages)
                /\ result' = result
    /\ UNCHANGED <<dirs, files, handlers, ingestors, nsaves, times>>

\* One turn of "for text_piece in extract_text_generator()": the generator is
\* exhausted, or the piece would exceed the cap (break), or it is appended.
ReadPiece ==
    /\ call.op = "read_document" /\ call.pc = "pieces"
    /\ IF call.yielded = 3 * call.pages_to_process
          \/ call.pages_to_process < 0
       THEN /\ result' = ReadResult(call, "ok", "none", FALSE)
            /\ call' = IdleCall
       ELSE LET piece == Piece(call.pages, call.yielded + 1) IN
            IF ExceedsCap(call.chunk_size, BLen(piece))
            THEN /\ result' = ReadResult(call, "ok", "none", TRUE)
                 /\ call' = IdleCall
            ELSE /\ call' = [call EXCEPT
                               !.yielded = call.yielded + 1,
                               !.text_chunks = Append(call.text_chunks, piece),
                               !.chunk_size = call.chunk_size + BLen(piece)]
                 /\ result' = result
    /\ UNCHANGED <<dirs, files, handlers, ingestors, nsaves, times>>

\* doc[page_num] or page.get_text() raises during extraction
ReadPageFault ==
    /\ call.op = "read_document" /\ call.pc = "pieces"
    /\ call.yielded < 3 * call.pages_to_process
    /\ result' = ReadResult(call, "error", "extract", FALSE)
    /\ call' = IdleCall
    /\ UNCHANGED <<dirs, files, handlers, ingestors, nsaves, times>>

(***************************************************************************)
(* Specification of a DocumentHandler that saves and then reads            *)
(***************************************************************************)
MaxReadSaves == 1

\* contents saved for reading: the library's documents that open without a
\* password, and a header with nothing behind it
ReadUploads == {FileThree, FileBlank, FileZero, FileToCap, FileOverCap, Pdf5}

MaxPagesArgs ==
    {NoMaxPages} \cup {MaxPagesOf(n) : n \in {-1, 0, 1, 2, 5}}

MissingPdf == <<"m", "i", "s", "s", "i", "n", "g", ".", "p", "d", "f">>

\* file_path arguments: what save_document returned, the session directory
\* itself, and a path that does not exist
ReadPaths(h) ==
    (DOMAIN files) \cup {handlers[h].session_path,
                         handlers[h].session_path \o <<MissingPdf>>}

NextRead ==
    \/ NewHandler(1, <<>>, AutoId("1"))
    \/ \E b \in ReadUploads :
          SaveBegin(1, NameXTxt, b, 1, Uuid(1, NameXTxt), MaxReadSaves)
    \/ SaveChunk
    \/ SaveSync
    \/ SaveReplace
    \/ \E fp \in ReadPaths(1), mp \in MaxPagesArgs : ReadBegin(1, fp, mp)
    \/ ReadPiece
    \/ ReadPageFault

SpecRead == Init /\ [][NextRead]_vars

ReadReturned == result.op = "read_document" /\ call.pc = "idle"

\* the pieces of the first k pages, as the generator yields them
AllPieces(pages, k) == [i \in 1..(3 * Max(k, 0)) |-> Piece(pages, i)]

\* the total length of the first j pieces
RECURSIVE SumLen(_, _)
SumLen(pieces, j) ==
    IF j = 0 THEN 0 ELSE SumLen(pieces, j - 1) + BLen(pieces[j])

\* the page markers of an extracted text, in the order they appear
Markers(value) ==
    SelectSeq(value, LAMBDA t : \E n \in 1..Len(value) : t = Marker(n))

\* C13: for a PDF of N pages whose whole text stays within the cap,
\* read_document returns the markers of pages 1..k in order, with k = N when
\* max_pages is omitted and k = min(max_pages, N) for every integer max_pages,
\* 0 included.
C13_MarkersUpToMaxPages ==
    (/\ ReadReturned /\ result.status = "ok"
     /\ SumLen(AllPieces(result.pages, Len(result.pages)),
               3 * Len(result.pages)) <= MaxChunkSize) =>
        LET N == Len(result.pages)
            k == IF result.max_pages.given
                 THEN Min(result.max_pages.value, N) ELSE N
        IN  Markers(result.value) = [i \in 1..k |-> Marker(i)]

\* C14: read_document does not fail on the size of its output: it returns the
\* longest prefix of the pieces (marker, page text, separator per page) whose
\* total length is at most 1 MiB, and nothing behind the first piece that
\* did not fit.
C14_LongestPrefixWithinCap ==
    /\ (ReadReturned /\ result.status = "error") =>
          result.cause \in {"not_found", "open", "encrypted", "extract"}
    /\ (ReadReturned /\ result.status = "ok") =>
          LET all == AllPieces(result.pages, result.pages_to_process)
              j   == Len(result.value)
          IN  /\ result.value = SubSeq(all, 1, j)
              /\ SumLen(all, j) <= MaxChunkSize
              /\ result.text_length = SumLen(all, j)
              /\ j < Len(all) => SumLen(all, j + 1) > MaxChunkSize
              /\ result.truncated <=> j < Len(all)

\* extraction stopped at a page text that did not fit although the pieces
\* behind it would have
C14_Witness ==
    /\ ReadReturned /\ result.status = "ok" /\ result.truncated
    /\ Len(result.value) >= 4
    /\ Len(result.value) + 1 < 3 * result.pages_to_process
    /\ result.text_length + BLen(Newline) <= MaxChunkSize

(***************************************************************************)
(* DocumentIngestion.read_pdf                                              *)
(***************************************************************************)
\* sep.join(parts)
RECURSIVE JoinStr(_, _)
JoinStr(parts, sep) ==
    IF parts = <<>> THEN Str(<<>>, 0)
    ELSE IF Len(parts) = 1 THEN parts[1]
    ELSE BConcat(BConcat(JoinStr(SubSeq(parts, 1, Len(parts) - 1), sep), sep),
                 parts[Len(parts)])

\* a component longer than the filesystem allows: stat() fails with
\* ENAMETOOLONG
NameTooLong(p) == \E i \in 1..Len(p) : Len(p[i]) > NameLimit

\* f"\n--- Page {page_num + 1} ---\n{page_text}"
FormattedPage(n, page_text) == BConcat(Marker(n), page_text)

\* page_texts: the formatted pages of the pages that hold text
PageTexts(pages) ==
    LET kept == SelectSeq([n \in 1..Len(pages) |-> n],
                          LAMBDA n : ~IsBlank(pages[n]))
    IN  [i \in 1..Len(kept) |-> FormattedPage(kept[i], pages[kept[i]])]

PdfRead(status, exc, cause, value, state, doc) ==
    [status |-> status, exc |-> exc, cause |-> cause, value |-> value,
     path_state |-> state, doc |-> doc]

\* read_pdf(pdf_path) on the filesystem (D, F).  strict_stat: Path.exists()
\* re-raises an OSError other than "not there" (pathlib up to Python 3.13);
\* fault: fitz raises while a page is loaded or its text extracted.
ReadPdf(pdf_path, D, F, strict_stat, fault) ==
    LET r     == Lookup(pdf_path, D)
        state == IF NameTooLong(pdf_path) \/ ~r.ok THEN "missing"
                 ELSE IF r.path \in D THEN "dir"
                 ELSE IF r.path \in DOMAIN F THEN "file"
                 ELSE "missing"
        doc   == IF state = "file" THEN FitzOpen(F[r.path]) ELSE NotAPdf
    IN  IF NameTooLong(pdf_path) /\ strict_stat
        THEN PdfRead("error", "OSError", "stat", Str(<<>>, 0), state, doc)
        ELSE IF state = "missing"
        THEN PdfRead("error", "ValueError", "missing", Str(<<>>, 0), state, doc)
        ELSE IF state = "dir"
        THEN PdfRead("error", "ValueError", "not_file", Str(<<>>, 0), state, doc)
        ELSE IF ~doc.ok
        THEN PdfRead("error", "DocumentPortalException", "open", Str(<<>>, 0),
                     state, doc)
        ELSE IF doc.is_encrypted
        THEN PdfRead("error", "ValueError", "encrypted", Str(<<>>, 0), state, doc)
        ELSE IF doc.pages = <<>>
        THEN PdfRead("ok", "none", "none", Str(<<>>, 0), state, doc)
        ELSE IF fault
        THEN PdfRead("error", "DocumentPortalException", "extract", Str(<<>>, 0),
                     state, doc)
        ELSE PdfRead("ok", "none", "none", JoinStr(PageTexts(doc.pages), Newline),
                     state, doc)

\* a call of read_pdf by the holder of ingestor g
ReadPdfCall(g, pdf_path, strict_stat, fault) ==
    /\ call.pc = "idle"
    /\ ingestors[g].constructed
    /\ LET r == ReadPdf(pdf_path, dirs, files, strict_stat, fault) IN
       result' = [op |-> "read_pdf", status |-> r.status, exc |-> r.exc,
                  cause |-> r.cause, value |-> r.value, g |-> g,
                  pdf_path |-> pdf_path, path_state |-> r.path_state,
                  doc |-> r.doc, fault |-> fault]
    /\ UNCHANGED <<dirs, files, handlers, ingestors, call, nsaves, times>>

(***************************************************************************)
(* DocumentIngestion.combine_documents                                     *)
(***************************************************************************)
\* code points of the characters that occur in names, in increasing order
AsciiOrder ==
    <<"\t", "\n", " ", "%", "(", ")", "-", ".", "/">>
        \o HexDigits \o UpperCase \o <<"_">> \o LowerCase

\* ord(c), up to the order; a character not listed sorts behind the others
Ord(c) ==
    IF \E i \in 1..Len(AsciiOrder) : AsciiOrder[i] = c
    THEN CHOOSE i \in 1..Len(AsciiOrder) : AsciiOrder[i] = c
    ELSE Len(AsciiOrder) + 1

\* a < b for str: at the first place where they differ, a has ended or holds
\* the smaller character
TextLess(a, b) ==
    \E k \in 1..(Min(Len(a), Len(b)) + 1) :
        /\ \A j \in 1..(k - 1) : a[j] = b[j]
        /\ IF k > Len(a) THEN k <= Len(b)
           ELSE k <= Len(b) /\ a[k] # b[k] /\ Ord(a[k]) < Ord(b[k])

\* p < q for Path: component by component
PathLess(p, q) ==
    \E k \in 1..(Min(Len(p), Len(q)) + 1) :
        /\ \A j \in 1..(k - 1) : p[j] = q[j]
        /\ IF k > Len(p) THEN k <= Len(q)
           ELSE k <= Len(q) /\ p[k] # q[k] /\ TextLess(p[k], q[k])

\* sorted(paths)
RECURSIVE Sorted(_)
Sorted(S) ==
    IF S = {} THEN <<>>
    ELSE LET m == CHOOSE x \in S : \A y \in S \ {x} : PathLess(x, y)
         IN  <<m>> \o Sorted(S \ {m})

\* the files of directory d whose name ends in .pdf, whatever the case
PdfFiles(F, d) == {f \in FilesIn(F, d) : IsPdfName(f[Len(f)])}

Included_AnyRead(r) == r.status = "ok"

\* the read succeeded and "doc_content and doc_content.strip()" holds
Included(r) == r.status = "ok" /\ ~IsBlank(r.value)

DocumentLabel == <<"D", "o", "c", "u", "m", "e", "n", "t", ":", " ">>

\* f"Document: {doc_name}\n{doc_info['content']}"
DocBlock(doc_name, content) ==
    BConcat(Str(DocumentLabel \o doc_name \o <<"\n">>, 0), content)

\* the blocks of the included files, in the order of pdf_files
DocParts(pdf_files, reads) ==
    LET kept == SelectSeq(pdf_files, LAMBDA f : Included(reads[f]))
    IN  [i \in 1..Len(kept) |->
            DocBlock(kept[i][Len(kept[i])], reads[kept[i]].value)]

NoneProcessed_Never(doc_parts) == FALSE

\* if not doc_contents_dict
NoneProcessed(doc_parts) == doc_parts = <<>>

CombineResult(g, status, cause, value, reads) ==
    [op |-> "combine_documents", status |-> status,
     exc |-> IF status = "ok" THEN "none" ELSE "DocumentPortalException",
     cause |-> cause, value |-> value, g |-> g, reads |-> reads]

\* combine_documents of ingestor g; faulty are the files on which fitz raises
\* during extraction
CombineDocuments(g, faulty) ==
    /\ call.pc = "idle"
    /\ ingestors[g].constructed
    /\ LET r         == Lookup(ingestors[g].session_path, dirs)
           pdf_files == Sorted(PdfFiles(files, r.path))
           names     == {pdf_files[i] : i \in 1..Len(pdf_files)}
           reads     == [f \in names |->
                            ReadPdf(f, dirs, files, TRUE, f \in faulty)]
           doc_parts == DocParts(pdf_files, reads)
           noreads   == [f \in {} |-> NotAPdf]
       IN  /\ faulty \subseteq names
           /\ IF ~(r.ok /\ r.path \in dirs)
              THEN result' = CombineResult(g, "error", "no_session",
                                           Str(<<>>, 0), noreads)
              ELSE IF pdf_files = <<>>
              THEN result' = CombineResult(g, "ok", "none", Str(<<>>, 0), noreads)
              ELSE IF NoneProcessed(doc_parts)
              THEN result' = CombineResult(g, "error", "none_processed",
                                           Str(<<>>, 0), reads)
              ELSE result' = CombineResult(g, "ok", "none",
                                           JoinStr(doc_parts, Str(<<"\n", "\n">>, 0)),
                                           reads)
    /\ UNCHANGED <<dirs, files, handlers, ingestors, call, nsaves, times>>

(***************************************************************************)
(* Specification of a DocumentIngestion that saves, reads and combines     *)
(***************************************************************************)
MaxCombineSaves == 2

NameA   == <<"a", ".", "p", "d", "f">>
NameB   == <<"b", ".", "p", "d", "f">>
NameC   == <<"c", ".", "p", "d", "f">>
NameBUp == <<"B", ".", "P", "D", "F">>

\* the pairs of uploads: a reference under a.pdf or c.pdf, an actual under
\* b.pdf or B.PDF; documents with text, without pages, with blank pages only,
\* needing a password, and a content that is no PDF
CombineUploads ==
    { [ref |-> UploadFile(rn, rb), actual |-> UploadFile(an, ab)] :
        rn \in {NameA, NameC}, rb \in {FileThree, FileZero, FileLocked},
        an \in {NameB, NameBUp}, ab \in {Pdf5, FileBlank, FileThree} }

\* pdf_path arguments: the stored files, the session directory, a path that
\* is not there, and one whose name is longer than a name can be
PdfPaths(g) ==
    (DOMAIN files) \cup {ingestors[g].session_path,
                         ingestors[g].session_path \o <<MissingPdf>>,
                         ingestors[g].session_path
                             \o <<Rep("a", NameLimit + 1) \o DotPdf>>}

\* the calls of read_pdf the model makes: the version of pathlib matters only
\* for the over-long name, an extraction fault only for a stored file
ReadPdfArgs(g) ==
    {a \in [pdf_path : PdfPaths(g), strict_stat : BOOLEAN, fault : BOOLEAN] :
        /\ a.strict_stat \/ NameTooLong(a.pdf_path)
        /\ ~a.fault \/ a.pdf_path \in DOMAIN files}

NextCombine ==
    \/ NewIngestor(1, <<>>, AutoId("1"))
    \/ \E u \in CombineUploads :
          SaveUploadedFiles(1, u.ref, u.actual, MaxCombineSaves)
    \/ \E a \in ReadPdfArgs(1) :
          ReadPdfCall(1, a.pdf_path, a.strict_stat, a.fault)
    \/ \E faulty \in {{}} \cup {{f} : f \in PdfFiles(files, IngestDir(1))} :
          CombineDocuments(1, faulty)

SpecCombine == Init /\ [][NextCombine]_vars

\* the text holds a character that is not whitespace
HoldsText(t) == t.pad > 0 \/ \E i \in 1..Len(t.head) : t.head[i] \notin Whitespace

\* "--- Page n ---"
MarkerText(n) == SubSeq(Marker(n).head, 2, Len(Marker(n).head) - 1)

MarkerAt(t, i, n) ==
    /\ i + Len(MarkerText(n)) - 1 <= Len(t.head)
    /\ SubSeq(t.head, i, i + Len(MarkerText(n)) - 1) = MarkerText(n)

\* where the page markers of a text begin, and the page numbers they carry
MarkerPositions(t) ==
    SelectSeq([i \in 1..Len(t.head) |-> i],
              LAMBDA i : \E n \in 1..9 : MarkerAt(t, i, n))
MarkerPages(t) ==
    [k \in 1..Len(MarkerPositions(t)) |->
        CHOOSE n \in 1..9 : MarkerAt(t, MarkerPositions(t)[k], n)]

\* the text between the k-th marker and the next one (or the end)
BlockAfter(t, k) ==
    LET pos == MarkerPositions(t) IN
    SubSeq(t.head, pos[k] + Len(MarkerText(1)),
           IF k < Len(pos) THEN pos[k + 1] - 1 ELSE Len(t.head))

\* the 1-based numbers of the pages that hold text, in page order
TextPages(pages) ==
    SelectSeq([n \in 1..Len(pages) |-> n], LAMBDA n : HoldsText(pages[n]))

ReadPdfReturned == result.op = "read_pdf"

\* C15: the text read_pdf returns for a readable, unencrypted PDF carries
\* the marker "--- Page n ---" for exactly the pages n that hold text, in
\* increasing order and numbered by their place in the source; a skipped page
\* leaves neither marker nor empty block.
C15_MarkersOfPagesWithText ==
    (ReadPdfReturned /\ result.status = "ok") =>
        /\ MarkerPages(result.value) = TextPages(result.doc.pages)
        /\ \A k \in 1..Len(MarkerPositions(result.value)) :
              \E i \in 1..Len(BlockAfter(result.value, k)) :
                  BlockAfter(result.value, k)[i] \notin Whitespace

\* a document whose blank page lies between two pages with text was read
C15_Witness ==
    /\ ReadPdfReturned /\ result.status = "ok"
    /\ MarkerPages(result.value) = <<1, 3>>
    /\ Len(result.doc.pages) = 3

\* C16: read_pdf fails with ValueError on a path that does not exist, on a
\* path that is no regular file and on an encrypted PDF; it returns "" for a
\* PDF without pages; every other failure is a DocumentPortalException.
C16_ReadPdfErrorKinds ==
    ReadPdfReturned =>
        /\ result.path_state \in {"missing", "dir"} =>
              result.status = "error" /\ result.exc = "ValueError"
        /\ (result.path_state = "file" /\ result.doc.ok
                /\ result.doc.is_encrypted) =>
              result.status = "error" /\ result.exc = "ValueError"
        /\ (result.path_state = "file" /\ result.doc.ok
                /\ ~result.doc.is_encrypted /\ result.doc.pages = <<>>) =>
              result.status = "ok" /\ result.value = Str(<<>>, 0)
        /\ (result.status = "error" /\ result.path_state = "file"
                /\ ~(result.doc.ok /\ result.doc.is_encrypted)) =>
              result.exc = "DocumentPortalException"

CombineReturned == result.op = "combine_documents"

\* the read gave text that is not blank
Usable(r) == r.status = "ok" /\ HoldsText(r.value)

\* the blocks of the usable files in sorted order, joined by a blank line
ExpectedCombined(reads) ==
    LET kept == SelectSeq(Sorted(DOMAIN reads), LAMBDA f : Usable(reads[f]))
    IN  JoinStr([i \in 1..Len(kept) |->
                    Str(DocumentLabel \o kept[i][Len(kept[i])] \o <<"\n">>
                            \o reads[kept[i]].value.head, reads[kept[i]].value.pad)],
                Str(<<"\n", "\n">>, 0))

\* C17: when at least one .pdf of the session gives text, combine_documents
\* returns the blocks "Document: <name>\n<content>" of exactly the files read
\* with non-blank text, in sorted order and joined by a blank line; a file
\* whose read fails is left out and the others are still combined.
C17_CombineSkipsFailedFiles ==
    (CombineReturned /\ \E f \in DOMAIN result.reads : Usable(result.reads[f])) =>
        /\ result.status = "ok"
        /\ result.value = ExpectedCombined(result.reads)

\* three files, the middle one of the sorted order unreadable, the two around
\* it combined
C17_Witness ==
    /\ CombineReturned /\ result.status = "ok"
    /\ Cardinality(DOMAIN result.reads) = 3
    /\ \E f1, f2, f3 \in DOMAIN result.reads :
          /\ PathLess(f1, f2) /\ PathLess(f2, f3)
          /\ Usable(result.reads[f1]) /\ Usable(result.reads[f3])
          /\ result.reads[f2].status = "error"

\* C18 as stated: combine_documents fails exactly when the session holds at
\* least one .pdf and the read of every one of them failed; it returns ""
\* without .pdf files and does not fail when files were read without error
\* but gave no text.
C18_FailsOnlyWhenEveryReadFailed ==
    CombineReturned =>
        (result.status = "error" <=>
            /\ DOMAIN result.reads # {}
            /\ \A f \in DOMAIN result.reads : result.reads[f].status = "error")

\* C18 amended: combine_documents fails exactly when the session holds at
\* least one .pdf and none of them gave non-blank text, be it that its read
\* failed or that it was read without error and had no text (or when the
\* session directory is gone); without .pdf files it returns "".
C18_FailsWhenNoFileGaveText ==
    CombineReturned =>
        /\ result.status = "error" <=>
              \/ result.cause = "no_session"
              \/ /\ DOMAIN result.reads # {}
                 /\ \A f \in DOMAIN result.reads : ~Usable(result.reads[f])
        /\ (DOMAIN result.reads = {} /\ result.cause # "no_session") =>
              result.status = "ok" /\ result.value = Str(<<>>, 0)

\* the call failed although a file was read without error: it had no text
C18_Witness ==
    /\ CombineReturned /\ result.status = "error"
    /\ \E f \in DOMAIN result.reads : result.reads[f].status = "ok"

(***************************************************************************)
(* DocumentIngestion.cleanup_sessions                                      *)
(***************************************************************************)
KeepLatest_AsGiven(keep_latest) == keep_latest

\* if keep_latest < 1: keep_latest = 3
KeepLatest(keep_latest) == IF keep_latest < 1 THEN 3 ELSE keep_latest

\* x.stat().st_ctime
Ctime(T, d) == IF d \in DOMAIN T THEN T[d].ctime ELSE 0

\* [f for f in self.base_dir.iterdir() if f.is_dir()]
SessionDirs(D, base) == {d \in D : DirectChild(d, base)}

\* sorted(..., key=st_ctime, reverse=True): every order iterdir and the sort
\* can give, directories of equal st_ctime in either order
RECURSIVE ByCtimeDesc(_, _)
ByCtimeDesc(S, T) ==
    IF S = {} THEN {<<>>}
    ELSE UNION { {<<m>> \o rest : rest \in ByCtimeDesc(S \ {m}, T)} :
                    m \in {x \in S : \A y \in S : Ctime(T, x) >= Ctime(T, y)} }

\* s[k:]
SliceFrom(s, k) ==
    LET start == IF k < 0 THEN Max(Len(s) + k, 0) ELSE Min(k, Len(s))
    IN  SubSeq(s, start + 1, Len(s))

\* what a removal can fail on: nothing, a session directory whose rmdir
\* fails, or a file of a session whose unlink fails (the first session made
\* and the reference file of the second stand for them)
StuckChoices(D, F, base) ==
    {{}} \cup {{d} : d \in {x \in SessionDirs(D, base) :
                              x = Resolved(SessionPath(AutoId(HexDigits[2])))}}
         \cup {{f} : f \in {q \in DOMAIN F :
                   q = Join(Resolved(SessionPath(AutoId(HexDigits[3]))), NameA)}}

\* shutil.rmtree(folder, ignore_errors=True): the directories and the files
\* that are left; an entry of stuck stays, and so does every directory above it
RmTreeDirs(D, folder, stuck) ==
    {d \in D : ~Within(d, folder) \/ \E s \in stuck : Within(s, d)}
RmTreeFiles(F, folder, stuck) ==
    [f \in {q \in DOMAIN F : ~Within(q, folder) \/ q \in stuck} |-> F[f]]
RmTreeTimes(T, D, F, folder, stuck) ==
    LET left == [d \in {x \in DOMAIN T : x \in RmTreeDirs(D, folder, stuck)} |-> T[d]]
    IN  IF folder \notin RmTreeDirs(D, folder, stuck)
        THEN TouchDir(left, Parent(folder))
        ELSE IF \E q \in DOMAIN F :
                   DirectChild(q, folder) /\ q \notin DOMAIN RmTreeFiles(F, folder, stuck)
        THEN TouchDir(left, folder)
        ELSE left

RmTree(fs, folder, stuck) ==
    [dirs  |-> RmTreeDirs(fs.dirs, folder, stuck),
     files |-> RmTreeFiles(fs.files, folder, stuck),
     times |-> RmTreeTimes(fs.times, fs.dirs, fs.files, folder, stuck)]

RECURSIVE PruneAll_StopAtFailure(_, _, _)
PruneAll_StopAtFailure(fs, old, stuck) ==
    IF old = <<>> THEN fs
    ELSE IF Head(old) \in RmTreeDirs(fs.dirs, Head(old), stuck)
    THEN RmTree(fs, Head(old), stuck)
    ELSE PruneAll_StopAtFailure(RmTree(fs, Head(old), stuck), Tail(old), stuck)

\* for folder in sessions[keep_latest:]: rmtree, whether or not it failed
RECURSIVE PruneAll(_, _, _)
PruneAll(fs, old, stuck) ==
    IF old = <<>> THEN fs
    ELSE PruneAll(RmTree(fs, Head(old), stuck), Tail(old), stuck)

\* DocumentPortalException.__init__(self, error) takes one argument: a raise
\* that passes nargs arguments gives the exception, or the TypeError of the
\* call that could not build it
Raised(nargs) == IF nargs = 1 THEN "DocumentPortalException" ELSE "TypeError"

\* raise DocumentPortalException("Error cleaning old sessions", e) from e
CleanupSessionsRaises == Raised(2)

PruneResult(g, keep_latest, status, exc, sessions, old, stuck, fault) ==
    [op |-> "cleanup_sessions", status |-> status, exc |-> exc, g |-> g,
     keep_latest |-> keep_latest, sessions |-> sessions, old |-> old,
     removed |-> {old[i] : i \in 1..Len(old)}, stuck |-> stuck,
     fault |-> fault,
     births |-> [i \in 1..Len(sessions) |-> times[sessions[i]].birth]]

\* stuck is what the removals fail on; fault says that iterdir(), is_dir() or
\* stat() raises while the sessions are listed and sorted
CleanupSessions(g, keep_latest, stuck, fault) ==
    /\ call.pc = "idle"
    /\ ingestors[g].constructed
    /\ LET base == Lookup(BaseDir, dirs) IN
       IF ~(base.ok /\ base.path \in dirs)
       THEN /\ UNCHANGED <<dirs, files, times>>
            /\ result' = PruneResult(g, keep_latest, "ok", "none", <<>>, <<>>, {}, FALSE)
       ELSE IF fault
       THEN /\ UNCHANGED <<dirs, files, times>>
            /\ result' = PruneResult(g, keep_latest, "error",
                                     CleanupSessionsRaises, <<>>, <<>>, {}, TRUE)
       ELSE \E sessions \in ByCtimeDesc(SessionDirs(dirs, base.path), times) :
              LET old == SliceFrom(sessions, KeepLatest(keep_latest))
                  fs  == PruneAll([dirs |-> dirs, files |-> files,
                                   times |-> times], old, stuck)
              IN  /\ dirs' = fs.dirs
                  /\ files' = fs.files
                  /\ times' = fs.times
                  /\ result' = PruneResult(g, keep_latest, "ok", "none",
                                           sessions, old, stuck, FALSE)
    /\ UNCHANGED <<handlers, ingestors, call, nsaves>>

(***************************************************************************)
(* Specification of several DocumentIngestion sessions on one base         *)
(* directory, with saves into them and the retention policy                *)
(***************************************************************************)
MaxSessions == 4
MaxPruneSaves == 2

KeepArgs == {-1, 0, 1, 2, 3}

InitPrune ==
    /\ dirs = {Root}
    /\ files = [p \in {} |-> EmptyBytes]
    /\ handlers = [h \in {1, 2} |-> NoObject]
    /\ ingestors = [g \in 1..MaxSessions |-> NoObject]
    /\ call = IdleCall
    /\ result = NoResult
    /\ nsaves = 0
    /\ times = NoTimes

\* the sessions are made with generated ids, one after the other
NextPrune ==
    \/ \E g \in 1..MaxSessions :
          /\ \A k \in 1..(g - 1) : ingestors[k].constructed
          /\ NewIngestor(g, <<>>, AutoId(HexDigits[g + 1]))
    \/ \E g \in 1..MaxSessions :
          SaveUploadedFiles(g, UploadFile(NameA, FileThree),
                            UploadFile(NameB, FileThree), MaxPruneSaves)
    \/ \E g \in 1..MaxSessions, keep_latest \in KeepArgs :
          CleanupSessions(g, keep_latest, {}, FALSE)

SpecPrune == InitPrune /\ [][NextPrune]_vars

PruneReturned == result.op = "cleanup_sessions"

\* the positions (in the listing) of the sessions that were kept and removed
KeptAt == {i \in 1..Len(result.sessions) : result.sessions[i] \notin result.removed}
RemovedAt == {i \in 1..Len(result.sessions) : result.sessions[i] \in result.removed}

\* C19: cleanup_sessions(k) with k >= 1 on a base directory of n session
\* directories leaves exactly the min(n, k) most recently created ones and
\* removes the others, whatever was written into older sessions since.
C19_KeepsMostRecentlyCreated ==
    (PruneReturned /\ result.keep_latest >= 1) =>
        /\ Cardinality(KeptAt) = Min(Len(result.sessions), result.keep_latest)
        /\ \A i \in KeptAt, j \in RemovedAt : result.births[i] > result.births[j]

\* C20: cleanup_sessions(keep_latest) with keep_latest < 1 returns normally
\* and does what cleanup_sessions(3) does: it removes the sessions behind the
\* third of the listing, hence nothing when there are at most 3, and never
\* all of them.
C20_InvalidKeepLatestMeansThree ==
    (PruneReturned /\ result.keep_latest < 1) =>
        /\ result.status = "ok"
        /\ result.removed = {result.sessions[i] : i \in 4..Len(result.sessions)}
        /\ Len(result.sessions) <= 3 => result.removed = {}
        /\ result.sessions # <<>> => KeptAt # {}
        /\ \A d \in result.removed : d \notin dirs
        /\ \A i \in KeptAt : result.sessions[i] \in dirs

\* a prune with keep_latest = 0 found four sessions and removed one
C20_Witness ==
    /\ PruneReturned /\ result.keep_latest = 0
    /\ Len(result.sessions) = 4
    /\ Cardinality(result.removed) = 1

(***************************************************************************)
(* Specification of the retention policy with failing system calls: the    *)
(* removals of cleanup_sessions fail on an entry, or its listing fails     *)
(***************************************************************************)
MaxFaultSessions == 3
MaxFaultSaves == 2

NextPruneFaults ==
    \/ \E g \in 1..MaxFaultSessions :
          /\ \A k \in 1..(g - 1) : ingestors[k].constructed
          /\ NewIngestor(g, <<>>, AutoId(HexDigits[g + 1]))
    \/ \E g \in 1..MaxFaultSessions :
          SaveUploadedFiles(g, UploadFile(NameA, FileThree),
                            UploadFile(NameB, FileThree), MaxFaultSaves)
    \/ \E g \in 1..MaxFaultSessions, keep_latest \in KeepArgs :
          \E stuck \in StuckChoices(dirs, files, Resolved(BaseDir)) :
                CleanupSessions(g, keep_latest, stuck, FALSE)
    \/ \E g \in 1..MaxFaultSessions, keep_latest \in KeepArgs :
          CleanupSessions(g, keep_latest, {}, TRUE)

SpecPruneFaults == InitPrune /\ [][NextPruneFaults]_vars

\* the old sessions a removal failure of this call did not touch
Removable == {i \in 1..Len(result.old) :
                \A q \in result.stuck : ~Within(q, result.old[i])}

\* C21: when cleanup_sessions fails to delete an old session directory, or a
\* file inside one, the call still returns normally, and every other old
\* session directory of the deletion order, those behind the failing one
\* included, is gone afterwards.
C21_DeletionFailureIsSkipped ==
    (PruneReturned /\ ~result.fault) =>
        /\ result.status = "ok" /\ result.exc = "none"
        /\ \A i \in Removable : result.old[i] \notin dirs

\* the first old session could not be removed, the one behind it was
C21_Witness ==
    /\ PruneReturned /\ result.status = "ok"
    /\ Len(result.old) >= 2
    /\ result.stuck # {}
    /\ result.old[1] \in dirs
    /\ result.old[2] \notin dirs

(***************************************************************************)
(* Properties of DocumentHandler.cleanup_session                           *)
(***************************************************************************)
CleanupReturned == result.op = "cleanup_session" /\ call.pc = "idle"

\* C22: after a successful cleanup_session the session directory and the
\* regular files that were directly inside it are gone; when a file cannot be
\* deleted, or an entry such as a subdirectory stays in the directory, the
\* call raises and the directory is still there.
C22_CleanupRemovesOrRaises ==
    CleanupReturned =>
        /\ result.status = "ok" =>
              /\ result.dir \notin dirs
              /\ \A f \in result.found : f \notin DOMAIN files
              /\ result.stuck = {} /\ result.subdirs = {}
        /\ (result.stuck # {} \/ result.subdirs # {}) =>
              /\ result.status = "error"
              /\ result.exc = "DocumentPortalException"
              /\ result.dir \in dirs
        /\ result.stuck = {} => \A f \in result.found : f \notin DOMAIN files
        /\ \A f \in result.stuck : f \in DOMAIN files

\* a cleanup deleted the file of a session and then failed on the session of
\* the other handler that lies inside the directory
C22_Witness ==
    /\ CleanupReturned /\ result.status = "error"
    /\ result.subdirs # {}
    /\ result.found # {}
    /\ result.stuck = {}

(***************************************************************************)
(* What a failing save leaves in the session directory                     *)
(***************************************************************************)
\* C23: when save_uploaded_files fails, none of the destination files the
\* call wrote to is left behind, so no partially written upload stays in the
\* session directory.
C23_FailedPairSaveLeavesNothing ==
    (PairReturned /\ result.status = "error") =>
        \A f \in result.written : f \notin DOMAIN files

(***************************************************************************)
(* Error kinds of DocumentHandler                                          *)
(***************************************************************************)
\* C24: a DocumentHandler call that fails on bad input raises the validation
\* error kind (ValueError), not DocumentPortalException: read_document on a
\* path that does not exist, save_document on a name whose sanitized form
\* does not end in .pdf.
C24_BadInputIsValidationError ==
    /\ (ReadReturned /\ result.status = "error" /\ result.cause = "not_found")
          => result.exc = "ValueError"
    /\ (SaveReturned /\ result.status = "error"
                     /\ result.cause = "unsupported_type")
          => result.exc = "ValueError"

(***************************************************************************)
(* Content of the files save_uploaded_files stores                         *)
(***************************************************************************)
\* C25: every file save_uploaded_files has written begins with the bytes
\* %PDF-; an upload whose buffer does not is rejected and not written.
C25_StoredPairFilesArePdf ==
    PairReturned =>
        \A f \in result.written :
            f \in DOMAIN files => BStartsWith(files[f], PdfMagic)

(***************************************************************************)
(* Error kinds of DocumentIngestion                                        *)
(***************************************************************************)
\* the error kinds the operations declare
DeclaredErrors == {"ValueError", "DocumentPortalException"}

\* C26: an ingestion operation that fails raises one of the declared error
\* kinds; cleanup_sessions, when listing the base directory or reading a
\* timestamp fails, raises DocumentPortalException.
C26_FailuresAreDeclaredKinds ==
    /\ result.status = "error" => result.exc \in DeclaredErrors
    /\ (PruneReturned /\ result.status = "error")
          => result.exc = "DocumentPortalException"

(***************************************************************************)
(* Size of the temp file during save_document                              *)
(***************************************************************************)
\* C27: in every state of a save_document call the temp file holds at most
\* max_size_mb * 1024 * 1024 bytes: the chunk that takes the running total
\* over the limit is not written, not even in part.
C27_TempFileWithinLimit ==
    call.op = "save_document" =>
        (TempFile \in DOMAIN files =>
            BLen(files[TempFile]) <= MaxSizeBytes(call.max_size_mb))

\* the temp file holds exactly the limit and the stream has more to give
C27_Witness ==
    /\ call.op = "save_document" /\ call.pc = "read"
    /\ TempFile \in DOMAIN files
    /\ BLen(files[TempFile]) = MaxSizeBytes(call.max_size_mb)
    /\ BLen(call.stream) > MaxSizeBytes(call.max_size_mb)
    /\ call.max_size_mb > 0

(***************************************************************************)
(* Specification of save_document on uploads given as bytes and as         *)
(* streams that split the same bytes into reads of any size                *)
(***************************************************************************)
MaxStreamSaves == 2
ShortReadWindow == 6
ShortReads == {1, 3, 5}

StreamUploads ==
    { EmptyBytes, Pdf5, Bytes(PdfMagic, 3), Gif10,
      Bytes(PdfMagic, ChunkSize - 4),
      Bytes(PdfMagic, MaxSizeBytes(1) - 5),
      Bytes(PdfMagic, MaxSizeBytes(1) - 4) }

NextStream ==
    \/ NewHandler(1, <<>>, AutoId("1"))
    \/ \E b \in StreamUploads :
          SaveBegin(1, NameXTxt, b, 1, Uuid(1, NameXTxt), MaxStreamSaves)
    \/ SaveChunk
    \/ \E n \in ShortReads : SaveShortRead(n, ShortReadWindow)
    \/ SaveSync
    \/ SaveReplace

SpecStream == Init /\ [][NextStream]_vars

\* what save_document does with the same bytes given as a bytes object: the
\* BytesIO made of it hands out full chunks, so the first chunk holds the
\* first bytes of the content
AcceptedAsBytes(content, max_size_mb) ==
    /\ ~TooLarge(BLen(content), max_size_mb)
    /\ BLen(content) > 0 => BStartsWith(content, PdfMagic)

\* C28: a successful save_document stores the upload's bytes unchanged and
\* total_size is their number, and the outcome is that of the bytes path for
\* every way a stream splits the same bytes into reads of at most 64 KiB.
C28_StreamSplitsGiveSameFile ==
    SaveReturned =>
        /\ result.status = "ok" =>
              /\ Resolved(result.file_path) \in DOMAIN files
              /\ files[Resolved(result.file_path)] = result.stream
              /\ result.total_size = BLen(result.stream)
        /\ (result.status = "ok")
              <=> AcceptedAsBytes(result.stream, result.max_size_mb)

\* the part of C28 that holds: whatever the split, a save that succeeds
\* stored the upload's bytes unchanged
StoredContentIsUpload ==
    (SaveReturned /\ result.status = "ok") =>
        /\ Resolved(result.file_path) \in DOMAIN files
        /\ files[Resolved(result.file_path)] = result.stream
        /\ result.total_size = BLen(result.stream)

(***************************************************************************)
(* The session after cleanup_session                                       *)
(***************************************************************************)
\* the handler's session directory is gone
Closed(h) == handlers[h].constructed /\ SessionDir(h) \notin dirs

\* C29: a cleanup_session that succeeds closes the handler's session for
\* good: no later call on the handler brings the directory back, every later
\* save_document fails with DocumentPortalException without starting a file
\* (final or temp), and every later cleanup_session fails.
C29_ClosedSessionStaysClosed ==
    [][ /\ \A h \in DOMAIN handlers :
              (/\ result'.op = "cleanup_session" /\ result'.status = "ok"
               /\ result'.h = h) => Closed(h)'
        /\ Closed(1) =>
              /\ Closed(1)'
              /\ \A f \in DOMAIN files' : ~Within(f, SessionDir(1))
              /\ call'.pc = "idle"
              /\ result'.op \in {"save_document", "cleanup_session"}
              /\ result'.status = "error"
              /\ result'.exc = "DocumentPortalException"
      ]_vars

\* a save_document after the cleanup has failed
C29_Witness ==
    /\ Closed(1)
    /\ SaveReturned /\ result.status = "error" /\ result.cause = "io"

(***************************************************************************)
(* Specification of the comparison workflow over several sessions: saves,  *)
(* the retention policy, and combine_documents after it                    *)
(***************************************************************************)
MaxRetainSessions == 3
MaxRetainSaves == 2

RetainKeepArgs == {1, 2}

NextRetain ==
    \/ \E g \in 1..MaxRetainSessions :
          /\ \A k \in 1..(g - 1) : ingestors[k].constructed
          /\ NewIngestor(g, <<>>, AutoId(HexDigits[g + 1]))
    \/ \E g \in 1..MaxRetainSessions :
          SaveUploadedFiles(g, UploadFile(NameA, FileThree),
                            UploadFile(NameB, FileThree), MaxRetainSaves)
    \/ \E g \in 1..MaxRetainSessions, keep_latest \in RetainKeepArgs :
          CleanupSessions(g, keep_latest, {}, FALSE)
    \/ \E g \in 1..MaxRetainSessions : CombineDocuments(g, {})

SpecRetain == InitPrune /\ [][NextRetain]_vars

\* cleanup_sessions(k), k >= 1, has returned to the ingestor whose session is
\* the one created last among the sessions it listed
InvokerIsNewest ==
    /\ PruneReturned /\ result.status = "ok" /\ result.keep_latest >= 1
    /\ \E i \in 1..Len(result.sessions) :
          /\ result.sessions[i] = IngestDir(result.g)
          /\ \A j \in 1..Len(result.sessions) :
                result.births[i] >= result.births[j]

\* C30: when cleanup_sessions(k), k >= 1, returns to the ingestor of the most
\* recently constructed session, that session's directory is still there,
\* whatever was saved into older sessions before; a combine_documents that
\* follows on the same ingestor does not fail for a missing session
\* directory.
C30_NewestSessionSurvivesPrune ==
    [][ /\ (InvokerIsNewest => IngestDir(result.g) \in dirs)'
        /\ (/\ InvokerIsNewest
            /\ result'.op = "combine_documents"
            /\ result'.g = result.g) => result'.cause # "no_session"
      ]_vars

====
